---- MODULE Spec2Model ----
\* Task-management gRPC service: the live-fanout subsystem.
\*   TaskService (src/errors/grpc.js:53-413): task mutations, the streamingSessions
\*   registry, streamTasks / streamNotifications and notifyStreams.
\*   ChatService (src/unnamed/part_001): the rooms registry and the Chat duplex stream.
\* A handler that awaits is cut at its awaits that let other callbacks run: one
\* action per slice. A slice runs from the resumption of the handler to its next
\* such await (or its end) and is atomic, as on the single-threaded event loop.
EXTENDS Integers, Sequences, FiniteSets, TLC

\* ---------------------------------------------------------------- bounds
MaxCalls == 2       \* server-streaming calls (streamTasks / streamNotifications)
MaxReqs == 1        \* unary requests being handled at the same time
MaxEvents == 1      \* dispatches after which no further request is started
MaxTasks == 2       \* task ids the store can hold (task 1 exists at start)
MaxSignals == 1     \* transport signals delivered to the streaming calls in a run
MaxChatCalls == 2   \* duplex Chat calls
MaxChatData == 2    \* inbound chat messages in a run
MaxChatSignals == 2 \* transport signals delivered to the Chat calls in a run
MaxRaceReqs == 2    \* unary requests being handled at the same time (SpecRace)
MaxRaceCalls == 1   \* server-streaming calls (SpecRace)
MaxAuthCalls == 2   \* calls that pass through authInterceptor in a run

Calls == 1..MaxCalls
ChatCalls == 1..MaxChatCalls
Reqs == 1..MaxReqs
TaskIds == 1..MaxTasks
RaceReqs == 1..MaxRaceReqs
RaceCalls == 1..MaxRaceCalls

\* ---------------------------------------------------------------- values
Users == {"u1", "u2"}
BadToken == "bad"
Tokens == Users \cup {BadToken}
\* The token field of a request: a token, or none.
RequestTokens == Tokens \cup {""}

\* An optional JS value: {} is undefined, {v} is the value v.
Undef == {}
Some(v) == {v}
OptBool == {Undef, Some(TRUE), Some(FALSE)}

\* Strings are sequences of characters, so that trim() is computed.
Sp == " "
RECURSIVE TrimLeft(_)
TrimLeft(s) == IF s # <<>> /\ Head(s) = Sp THEN TrimLeft(Tail(s)) ELSE s
RECURSIVE TrimRight(_)
TrimRight(s) ==
    IF s # <<>> /\ s[Len(s)] = Sp THEN TrimRight(SubSeq(s, 1, Len(s) - 1)) ELSE s
\* A trim that removes nothing.
TrimNothing(s) == s
Trim(s) == TrimRight(TrimLeft(s))

\* The room and text fields of an inbound chat message.
RoomInputs == {<<>>, <<Sp>>, <<Sp, "g">>, <<"o">>}
TextInputs == {<<>>, <<Sp>>, <<"h", Sp>>}
RoomNames == {Trim(r) : r \in RoomInputs} \ {<<>>}
NoToken == ""
ChatSignals == {"end", "cancelled", "error"}

TitleInputs == {<<>>, <<Sp>>, <<"a", Sp>>}
\* The title and completed fields of an updateTask request.
UpdateInputs ==
    {[title |-> Undef, completed |-> Some(TRUE)],
     [title |-> Undef, completed |-> Some(FALSE)]}

\* grpc.status codes (errors/grpc.js:16-34) and the success reply.
OK == "OK"
INVALID_ARGUMENT == "INVALID_ARGUMENT"
UNAUTHENTICATED == "UNAUTHENTICATED"
NOT_FOUND == "NOT_FOUND"
INTERNAL == "INTERNAL"

\* Transport signals of a call.
Signals == {"cancelled", "error", "close"}

VARIABLES
    store,              \* the tasks table: a set of rows
    nextTaskId,         \* ids handed out by uuidv4() for tasks (fresh, never reused)
    streamingSessions,  \* TaskService.streamingSessions, in Map insertion order
    call,               \* per streaming call: handler position and transport state
    out,                \* per streaming call: the write attempts made on it, in order
    req,                \* per unary request: handler position and locals
    events,             \* the notifyStreams calls made so far, in order
    dispatchSnapshot,   \* streamingSessions at the start of the latest notifyStreams
    rooms,              \* ChatService.rooms: room name -> set of calls
    chat,               \* per Chat call: the closure's locals and the transport state
    chatOut,            \* per Chat call: the write attempts made on it, in order
    nData,              \* inbound chat messages so far
    auth                \* the calls authInterceptor has handled, with what it did

taskVars == <<store, nextTaskId, streamingSessions, call, out, req, events, dispatchSnapshot>>
chatVars == <<rooms, chat, chatOut, nData>>
authVars == <<auth>>
vars == <<taskVars, chatVars, authVars>>

\* ---------------------------------------------------------------- validateToken
\* A verification that accepts whatever it is given.
validateTokenAcceptsAll(token) == [ok |-> TRUE, id |-> token]

\* jwt.verify returns the payload of a valid token and throws on any other.
validateToken(token) ==
    IF token \in Users THEN [ok |-> TRUE, id |-> token] ELSE [ok |-> FALSE, id |-> ""]

\* ---------------------------------------------------------------- store
Row(id, userId, completed, title) ==
    [id |-> id, userId |-> userId, completed |-> completed, title |-> title]

\* A SELECT by id that leaves the owner out of its WHERE clause.
dbGetAnyOwner(id, userId) == {r \in store : r.id = id}

\* database.get('SELECT * FROM tasks WHERE id = ? AND userId = ?'): {} or {row}.
dbGet(id, userId) == {r \in store : r.id = id /\ r.userId = userId}

\* ---------------------------------------------------------------- notifyStreams
TASK_CREATED == "TASK_CREATED"
TASK_UPDATED == "TASK_UPDATED"
TASK_DELETED == "TASK_DELETED"
Actions == {TASK_CREATED, TASK_UPDATED, TASK_DELETED}

\* A type map that gives an update the type of a creation.
TypeMapUpdatedAsCreated(action) == IF action = TASK_DELETED THEN 2 ELSE 0

\* notificationTypeMap (grpc.js:377-382); TASK_COMPLETED (3) is never dispatched.
notificationTypeMap(action) ==
    CASE action = TASK_CREATED -> 0
      [] action = TASK_UPDATED -> 1
      [] action = TASK_DELETED -> 2
      [] OTHER -> 3

\* `Tarefa ${action.toLowerCase().replace('_', ' ')}`
notificationMessage(action) ==
    CASE action = TASK_CREATED -> "Tarefa task created"
      [] action = TASK_UPDATED -> "Tarefa task updated"
      [] action = TASK_DELETED -> "Tarefa task deleted"
      [] OTHER -> "Tarefa task completed"

\* What is written on a call: task.toProtobuf() on a task stream, an envelope on a
\* notification stream (task {} is null). The timestamp is left out.
TaskPayload(task) == [kind |-> "task", type |-> -1, message |-> "", task |-> Some(task)]
Envelope(type, message, task) ==
    [kind |-> "notification", type |-> type, message |-> message, task |-> task]

TaskSession(id, c, userId, completed) ==
    [id |-> id, call |-> c, userId |-> userId, type |-> "", filter |-> Some(completed)]
NotificationSession(id, c, userId) ==
    [id |-> id, call |-> c, userId |-> userId, type |-> "notifications", filter |-> Undef]

\* Variants of the loop body: one that does not compare the owner, one that does
\* not apply the filter, one that forwards deletions to task streams.
SessionWritesNoFilter(session, action, task) ==
    IF session.userId = task.userId
    THEN IF session.type = "notifications"
         THEN <<Envelope(notificationTypeMap(action), notificationMessage(action), Some(task))>>
         ELSE IF action # TASK_DELETED THEN <<TaskPayload(task)>> ELSE <<>>
    ELSE <<>>

SessionWritesAnyOwner(session, action, task) ==
    IF session.type = "notifications"
    THEN <<Envelope(notificationTypeMap(action), notificationMessage(action), Some(task))>>
    ELSE LET completed == CHOOSE f \in session.filter : TRUE
         IN IF (completed = Undef \/ completed = Some(task.completed))
               /\ action # TASK_DELETED
            THEN <<TaskPayload(task)>> ELSE <<>>

SessionWritesDeleted(session, action, task) ==
    IF session.userId = task.userId
    THEN IF session.type = "notifications"
         THEN <<Envelope(notificationTypeMap(action), notificationMessage(action), Some(task))>>
         ELSE LET completed == CHOOSE f \in session.filter : TRUE
              IN IF completed = Undef \/ completed = Some(task.completed)
                 THEN <<TaskPayload(task)>> ELSE <<>>
    ELSE <<>>

\* The body of the loop of notifyStreams for one session (grpc.js:386-404): the
\* payloads it writes on session.call, none or one.
SessionWrites(session, action, task) ==
    IF session.userId = task.userId
    THEN IF session.type = "notifications"
         THEN <<Envelope(notificationTypeMap(action), notificationMessage(action), Some(task))>>
         ELSE IF session.filter # Undef
              THEN LET completed == CHOOSE f \in session.filter : TRUE
                   IN IF completed = Undef \/ completed = Some(task.completed)
                      THEN IF action # TASK_DELETED THEN <<TaskPayload(task)>> ELSE <<>>
                      ELSE <<>>
              ELSE <<>>
    ELSE <<>>

\* streamingSessions.delete(sessionId)
SessionsDelete(sessions, id) == SelectSeq(sessions, LAMBDA s : s.id # id)

\* One write attempt on call c, recorded with the dispatch it belongs to (0: none).
Attempt(ev, threw, msg) == [ev |-> ev, threw |-> threw, msg |-> msg]

\* An iteration that loses the entry after one it deletes, as an index over an
\* array that is spliced would.
RECURSIVE NotifyLoopSkip(_, _, _, _, _, _, _)
NotifyLoopSkip(todo, sessions, o, action, task, fail, ev) ==
    IF todo = <<>>
    THEN [sessions |-> sessions, out |-> o]
    ELSE LET session == Head(todo)
             w == IF session.userId # task.userId THEN <<>>
                  ELSE IF session.type = "notifications"
                  THEN <<Envelope(notificationTypeMap(action),
                                  notificationMessage(action), Some(task))>>
                  ELSE IF session.filter \in {Some(Undef), Some(Some(task.completed))}
                          /\ action # TASK_DELETED
                  THEN <<TaskPayload(task)>> ELSE <<>>
             threw == w # <<>> /\ session.call \in fail
             o2 == IF w = <<>> THEN o
                   ELSE [o EXCEPT ![session.call] = Append(@, Attempt(ev, threw, w[1]))]
             s2 == IF threw THEN SessionsDelete(sessions, session.id) ELSE sessions
             rest == IF threw /\ Len(todo) > 1 THEN Tail(Tail(todo)) ELSE Tail(todo)
         IN NotifyLoopSkip(rest, s2, o2, action, task, fail, ev)

\* A dispatch that is held back by a replay: while a streamTasks call is between
\* two rows of its replay, nothing is written.
RECURSIVE NotifyLoopWaitsReplay(_, _, _, _, _, _, _)
NotifyLoopWaitsReplay(todo, sessions, o, action, task, fail, ev) ==
    IF todo = <<>> \/ \E c \in Calls : call[c].pc = "replay"
    THEN [sessions |-> sessions, out |-> o]
    ELSE LET session == Head(todo)
             w == SessionWrites(session, action, task)
             threw == w # <<>> /\ session.call \in fail
             o2 == IF w = <<>> THEN o
                   ELSE [o EXCEPT ![session.call] = Append(@, Attempt(ev, threw, w[1]))]
             s2 == IF threw THEN SessionsDelete(sessions, session.id) ELSE sessions
         IN NotifyLoopWaitsReplay(Tail(todo), s2, o2, action, task, fail, ev)

\* An iteration whose writes go to the front of what the call has yet to send.
RECURSIVE NotifyLoopPrepend(_, _, _, _, _, _, _)
NotifyLoopPrepend(todo, sessions, o, action, task, fail, ev) ==
    IF todo = <<>>
    THEN [sessions |-> sessions, out |-> o]
    ELSE LET session == Head(todo)
             w == SessionWrites(session, action, task)
             threw == w # <<>> /\ session.call \in fail
             o2 == IF w = <<>> THEN o
                   ELSE [o EXCEPT ![session.call] = <<Attempt(ev, threw, w[1])>> \o @]
             s2 == IF threw THEN SessionsDelete(sessions, session.id) ELSE sessions
         IN NotifyLoopPrepend(Tail(todo), s2, o2, action, task, fail, ev)

\* An iteration whose try encloses the loop: the first write that throws removes
\* its session and ends the dispatch.
RECURSIVE NotifyLoopAbort(_, _, _, _, _, _, _)
NotifyLoopAbort(todo, sessions, o, action, task, fail, ev) ==
    IF todo = <<>>
    THEN [sessions |-> sessions, out |-> o]
    ELSE LET session == Head(todo)
             w == SessionWrites(session, action, task)
             threw == w # <<>> /\ session.call \in fail
             o2 == IF w = <<>> THEN o
                   ELSE [o EXCEPT ![session.call] = Append(@, Attempt(ev, threw, w[1]))]
             s2 == IF threw THEN SessionsDelete(sessions, session.id) ELSE sessions
         IN IF threw THEN [sessions |-> s2, out |-> o2]
            ELSE NotifyLoopAbort(Tail(todo), s2, o2, action, task, fail, ev)

\* The iteration of notifyStreams over streamingSessions.entries() (grpc.js:384-409).
\* todo: the entries the iterator has yet to visit; sessions, o: the registry and
\* the calls' logs so far; fail: the calls whose write throws. A Map iterator goes
\* on to the next entry after the current one is deleted.
RECURSIVE NotifyLoop(_, _, _, _, _, _, _)
NotifyLoop(todo, sessions, o, action, task, fail, ev) ==
    IF todo = <<>>
    THEN [sessions |-> sessions, out |-> o]
    ELSE LET session == Head(todo)
             w == SessionWrites(session, action, task)
             threw == w # <<>> /\ session.call \in fail
             o2 == IF w = <<>> THEN o
                   ELSE [o EXCEPT ![session.call] = Append(@, Attempt(ev, threw, w[1]))]
             s2 == IF threw THEN SessionsDelete(sessions, session.id) ELSE sessions
         IN NotifyLoop(Tail(todo), s2, o2, action, task, fail, ev)

\* notifyStreams(action, task) as the next values of the registry, the logs and the
\* dispatch history.
notifyStreams(action, task, fail) ==
    LET r == NotifyLoop(streamingSessions, streamingSessions, out, action, task,
                        fail, Len(events) + 1)
    IN /\ streamingSessions' = r.sessions
       /\ out' = r.out
       /\ events' = Append(events, [action |-> action, task |-> task])
       /\ dispatchSnapshot' = streamingSessions

NoNotify == UNCHANGED <<streamingSessions, out, events, dispatchSnapshot>>

\* ---------------------------------------------------------------- initial state
IdleCall ==
    [kind |-> "none", pc |-> "idle", user |-> "", filter |-> Undef, rows |-> <<>>,
     signals |-> {}, handlers |-> {}, destroyed |-> FALSE]

\* rooms is a Map from room name to a Set of calls: per name, whether the key is
\* there and the Set it maps to. The order of a Set's iteration does not show in
\* what _broadcast does: each member is written once, each write in its own try.
NoRoom == [present |-> FALSE, members |-> {}]

\* Chat(call) before it is invoked: joinedRoom and user are null (part_001:45-46).
IdleChat ==
    [opened |-> FALSE, token |-> "", user |-> Undef, joinedRoom |-> Undef,
     pending |-> <<>>, verifications |-> 0, signals |-> {}, destroyed |-> FALSE,
     ended |-> FALSE]

IdleReq ==
    [op |-> "none", pc |-> "idle", user |-> "", tid |-> 0, title |-> Undef,
     completed |-> Undef, existing |-> {}, resp |-> "", tasks |-> <<>>]

Init ==
    /\ store = {Row(1, "u1", FALSE, <<"a">>)}
    /\ nextTaskId = 2
    /\ streamingSessions = <<>>
    /\ call = [c \in Calls |-> IdleCall]
    /\ out = [c \in Calls |-> <<>>]
    /\ req = [r \in Reqs |-> IdleReq]
    /\ events = <<>>
    /\ dispatchSnapshot = <<>>
    /\ rooms = [r \in RoomNames |-> NoRoom]
    /\ chat = [c \in ChatCalls |-> IdleChat]
    /\ chatOut = [c \in ChatCalls |-> <<>>]
    /\ nData = 0
    /\ auth = <<>>

\* Calls and requests are numbered in the order they arrive.
FreeCall(c) == call[c].kind = "none" /\ \A d \in Calls : d < c => call[d].kind # "none"
\* A request takes the first slot that handles none; the slot of a request that
\* was replied to is free again.
Handling(r) == req[r].pc \notin {"idle", "done"}
FreeReq(r) ==
    /\ ~Handling(r) /\ \A q \in DOMAIN req : q < r => Handling(q)
    /\ Len(events) < MaxEvents

\* ---------------------------------------------------------------- streamTasks
\* 'SELECT * FROM tasks WHERE userId = ? [AND completed = ?] ORDER BY createdAt DESC'
\* (grpc.js:290-300). Ids are handed out in creation order, so the newest row is
\* the one with the largest id.
RECURSIVE RowsDesc(_)
RowsDesc(rows) ==
    IF rows = {} THEN <<>>
    ELSE LET newest == CHOOSE r \in rows : \A q \in rows : q.id <= r.id
         IN <<newest>> \o RowsDesc(rows \ {newest})

\* A query without `WHERE userId = ?`.
dbAllTasksAnyOwner(userId, completed) ==
    RowsDesc({r \in store : completed # Undef => Some(r.completed) = completed})

dbAllTasks(userId, completed) ==
    RowsDesc({r \in store : /\ r.userId = userId
                            /\ completed # Undef => Some(r.completed) = completed})

\* streamingSessions.set(sessionId, ...) and call.on('cancelled', ...) of streamTasks
\* (grpc.js:311-322). uuidv4() is a fresh id; a call opens one session at most, so
\* the call's index stands for it.
RegisterTaskStream(c) ==
    /\ streamingSessions' =
           Append(streamingSessions, TaskSession(c, c, call[c].user, call[c].filter))
    /\ call' = [call EXCEPT ![c].pc = "live", ![c].rows = <<>>,
                            ![c].handlers = {"cancelled"}]
    /\ out' = out

\* call.write(task.toProtobuf()) of the replay loop (grpc.js:303-309): the write
\* throws (the catch destroys the call) or the handler waits for the 100 ms timer.
ReplayWrite(c, rows, threw) ==
    /\ out' = [out EXCEPT ![c] = Append(@, Attempt(0, threw, TaskPayload(Head(rows))))]
    /\ call' = [call EXCEPT ![c].pc = IF threw THEN "failed" ELSE "replay",
                            ![c].rows = IF threw THEN <<>> ELSE Tail(rows),
                            ![c].destroyed = threw]
    /\ streamingSessions' = streamingSessions

\* streamTasks up to `await database.all` (grpc.js:284-300).
StreamTasksOpen(c, token, completed) ==
    /\ FreeCall(c)
    /\ LET v == validateToken(token)
       IN call' = [call EXCEPT ![c] =
              IF v.ok
              THEN [@ EXCEPT !.kind = "tasks", !.pc = "all", !.user = v.id,
                             !.filter = completed]
              ELSE [@ EXCEPT !.kind = "tasks", !.pc = "failed", !.destroyed = TRUE]]
    /\ UNCHANGED <<chatVars, authVars>>
    /\ UNCHANGED <<store, nextTaskId, streamingSessions, out, req, events, dispatchSnapshot>>

\* The rows arrive: the first write of the replay, or the registration when there
\* are no rows (grpc.js:300-322).
StreamTasksRows(c, threw) ==
    /\ call[c].pc = "all"
    /\ LET rows == dbAllTasks(call[c].user, call[c].filter)
       IN IF rows = <<>>
          THEN ~threw /\ RegisterTaskStream(c)
          ELSE ReplayWrite(c, rows, threw)
    /\ UNCHANGED <<chatVars, authVars>>
    /\ UNCHANGED <<store, nextTaskId, req, events, dispatchSnapshot>>

\* The 100 ms timer fires: the next write, or the registration after the last row.
StreamTasksTick(c, threw) ==
    /\ call[c].pc = "replay"
    /\ IF call[c].rows = <<>>
       THEN ~threw /\ RegisterTaskStream(c)
       ELSE ReplayWrite(c, call[c].rows, threw)
    /\ UNCHANGED <<chatVars, authVars>>
    /\ UNCHANGED <<store, nextTaskId, req, events, dispatchSnapshot>>

\* ---------------------------------------------------------------- streamNotifications
\* A streamNotifications that registers the session and writes nothing.
StreamNotificationsOpenSilent(c, token, threw) ==
    /\ FreeCall(c)
    /\ ~threw
    /\ LET v == validateToken(token)
       IN IF v.ok
          THEN /\ streamingSessions' =
                      Append(streamingSessions, NotificationSession(c, c, v.id))
               /\ call' = [call EXCEPT ![c] =
                      [@ EXCEPT !.kind = "notifications", !.user = v.id, !.pc = "live",
                                !.handlers = {"cancelled", "error"}]]
               /\ out' = out
          ELSE /\ call' = [call EXCEPT ![c] =
                      [@ EXCEPT !.kind = "notifications", !.pc = "failed",
                                !.destroyed = TRUE]]
               /\ UNCHANGED <<streamingSessions, out>>
    /\ UNCHANGED <<chatVars, authVars>>
    /\ UNCHANGED <<store, nextTaskId, req, events, dispatchSnapshot>>

\* The whole handler (grpc.js:335-371): `await validateToken` resolves without any
\* I/O, so nothing runs between the validation and the end of the handler. The
\* session is set before the initial write; the handlers are installed after it.
StreamNotificationsOpen(c, token, threw) ==
    /\ FreeCall(c)
    /\ LET v == validateToken(token)
       IN IF v.ok
          THEN /\ streamingSessions' =
                      Append(streamingSessions, NotificationSession(c, c, v.id))
               /\ out' = [out EXCEPT ![c] = Append(@, Attempt(0, threw,
                              Envelope(0, "Stream de notificações iniciado", {})))]
               /\ call' = [call EXCEPT ![c] =
                      [@ EXCEPT !.kind = "notifications", !.user = v.id,
                                !.pc = IF threw THEN "failed" ELSE "live",
                                !.destroyed = threw,
                                !.handlers = IF threw THEN {} ELSE {"cancelled", "error"}]]
          ELSE /\ ~threw
               /\ call' = [call EXCEPT ![c] =
                      [@ EXCEPT !.kind = "notifications", !.pc = "failed",
                                !.destroyed = TRUE]]
               /\ UNCHANGED <<streamingSessions, out>>
    /\ UNCHANGED <<chatVars, authVars>>
    /\ UNCHANGED <<store, nextTaskId, req, events, dispatchSnapshot>>

\* ---------------------------------------------------------------- transport signals
RECURSIVE SignalCount(_)
SignalCount(cs) ==
    IF cs = {} THEN 0
    ELSE LET c == CHOOSE x \in cs : TRUE
         IN Cardinality(call[c].signals) + SignalCount(cs \ {c})

\* The transport signals cancellation, an error or the closure of an opened call
\* that the server has not destroyed, each once. The handler installed for the signal, if any, deletes the session
\* (grpc.js:319-322, 357-365).
Signal(c, sig) ==
    /\ call[c].kind # "none"
    /\ ~call[c].destroyed
    /\ sig \notin call[c].signals
    /\ SignalCount(Calls) < MaxSignals
    /\ call' = [call EXCEPT ![c].signals = @ \cup {sig}]
    /\ streamingSessions' =
           IF sig \in call[c].handlers
           THEN SessionsDelete(streamingSessions, c)
           ELSE streamingSessions
    /\ UNCHANGED <<chatVars, authVars>>
    /\ UNCHANGED <<store, nextTaskId, out, req, events, dispatchSnapshot>>

\* ---------------------------------------------------------------- unary requests
\* callback(...): the handler is over; its locals are dropped.
Reply(r, code) == [req EXCEPT ![r] = [IdleReq EXCEPT !.op = req[r].op, !.pc = "done",
                                                      !.resp = code]]

\* createTask up to `await database.run(INSERT ...)` (grpc.js:72-99). The id is
\* uuidv4(); task.validate() of models/Task is taken to accept a non-empty title.
CreateTaskStart(r, token, title) ==
    /\ FreeReq(r)
    /\ nextTaskId <= MaxTasks
    /\ LET v == validateToken(token)
       IN IF ~v.ok
          THEN /\ req' = [req EXCEPT ![r] = [IdleReq EXCEPT !.op = "create", !.pc = "done",
                                                            !.resp = UNAUTHENTICATED]]
               /\ nextTaskId' = nextTaskId
          ELSE IF Trim(title) = <<>>
          THEN /\ req' = [req EXCEPT ![r] = [IdleReq EXCEPT !.op = "create", !.pc = "done",
                                                            !.resp = INVALID_ARGUMENT]]
               /\ nextTaskId' = nextTaskId
          ELSE /\ req' = [req EXCEPT ![r] = [IdleReq EXCEPT !.op = "create", !.pc = "run",
                                                      !.user = v.id, !.tid = nextTaskId,
                                                      !.title = Some(Trim(title))]]
               /\ nextTaskId' = nextTaskId + 1
    /\ UNCHANGED <<chatVars, authVars>>
    /\ UNCHANGED <<store, streamingSessions, call, out, events, dispatchSnapshot>>

\* A createTask that lets a failed write of the dispatch reach its catch: the
\* insertion is taken back and the caller is answered INTERNAL.
CreateTaskRunPropagates(r, dbOk, fail) ==
    /\ req[r].op = "create" /\ req[r].pc = "run"
    /\ IF dbOk
       THEN LET task == Row(req[r].tid, req[r].user, FALSE,
                            CHOOSE t \in req[r].title : TRUE)
                threw == \E i \in 1..Len(streamingSessions) :
                             /\ SessionWrites(streamingSessions[i], TASK_CREATED, task) # <<>>
                             /\ streamingSessions[i].call \in fail
            IN /\ store' = IF threw THEN store ELSE store \cup {task}
               /\ notifyStreams(TASK_CREATED, task, fail)
               /\ req' = Reply(r, IF threw THEN INTERNAL ELSE OK)
       ELSE /\ fail = {}
            /\ req' = Reply(r, INTERNAL)
            /\ store' = store
            /\ NoNotify
    /\ UNCHANGED <<chatVars, authVars>>
    /\ UNCHANGED <<nextTaskId, call>>

\* The INSERT completes (grpc.js:96-107): it rejects, or the row is stored and the
\* handler dispatches TASK_CREATED and replies.
CreateTaskRun(r, dbOk, fail) ==
    /\ req[r].op = "create" /\ req[r].pc = "run"
    /\ IF dbOk
       THEN LET task == Row(req[r].tid, req[r].user, FALSE,
                            CHOOSE t \in req[r].title : TRUE)
            IN /\ store' = store \cup {task}
               /\ notifyStreams(TASK_CREATED, task, fail)
               /\ req' = Reply(r, OK)
       ELSE /\ fail = {}
            /\ req' = Reply(r, INTERNAL)
            /\ store' = store
            /\ NoNotify
    /\ UNCHANGED <<chatVars, authVars>>
    /\ UNCHANGED <<nextTaskId, call>>

\* updateTask / deleteTask up to the first `await database.get` (grpc.js:185-193,
\* 223-228).
MutationStart(r, op, token, tid, title, completed) ==
    /\ FreeReq(r)
    /\ LET v == validateToken(token)
       IN req' = [req EXCEPT ![r] =
              IF v.ok
              THEN [IdleReq EXCEPT !.op = op, !.pc = "get", !.user = v.id, !.tid = tid,
                                   !.title = title, !.completed = completed]
              ELSE [IdleReq EXCEPT !.op = op, !.pc = "done", !.resp = UNAUTHENTICATED]]
    /\ UNCHANGED <<chatVars, authVars>>
    /\ UNCHANGED <<store, nextTaskId, streamingSessions, call, out, events, dispatchSnapshot>>

UpdateTaskStart(r, token, tid, title, completed) ==
    MutationStart(r, "update", token, tid, title, completed)

DeleteTaskStart(r, token, tid) ==
    MutationStart(r, "delete", token, tid, Undef, Undef)

\* The first SELECT answers (grpc.js:189-200, 228-229): NOT_FOUND, or the row is
\* kept as `existing` and the write is issued. updateData is computed from
\* `existing` here and written later.
MutationGet(r) ==
    /\ req[r].op \in {"update", "delete"} /\ req[r].pc = "get"
    /\ LET existing == dbGet(req[r].tid, req[r].user)
       IN req' = IF existing = {}
                 THEN Reply(r, NOT_FOUND)
                 ELSE [req EXCEPT ![r].pc = "run", ![r].existing = existing]
    /\ UNCHANGED <<chatVars, authVars>>
    /\ UNCHANGED <<store, nextTaskId, streamingSessions, call, out, events, dispatchSnapshot>>

\* updateData (grpc.js:195-200).
updateData(r) ==
    LET existing == CHOOSE e \in req[r].existing : TRUE
    IN Row(existing.id, existing.userId,
           IF req[r].completed # Undef
           THEN CHOOSE b \in req[r].completed : TRUE ELSE existing.completed,
           IF req[r].title # Undef
           THEN CHOOSE t \in req[r].title : TRUE ELSE existing.title)

\* The UPDATE completes (grpc.js:202-206): every column is overwritten with
\* updateData; result.changes is the number of rows it matched.
UpdateTaskRun(r, dbOk) ==
    /\ req[r].op = "update" /\ req[r].pc = "run"
    /\ LET matched == dbGet(req[r].tid, req[r].user)
       IN IF dbOk /\ matched # {}
          THEN /\ store' = (store \ matched) \cup {updateData(r)}
               /\ req' = [req EXCEPT ![r].pc = "reget"]
          ELSE /\ store' = store
               /\ req' = Reply(r, INTERNAL)
    /\ UNCHANGED <<chatVars, authVars>>
    /\ UNCHANGED <<nextTaskId, streamingSessions, call, out, events, dispatchSnapshot>>

\* An updateTask that dispatches what it wrote without reading the row again.
UpdateTaskRegetDispatchesWritten(r, fail) ==
    /\ req[r].op = "update" /\ req[r].pc = "reget"
    /\ notifyStreams(TASK_UPDATED, updateData(r), fail)
    /\ req' = Reply(r, OK)
    /\ UNCHANGED <<chatVars, authVars>>
    /\ UNCHANGED <<store, nextTaskId, call>>

\* The second SELECT answers (grpc.js:208-212): the row read now is dispatched as
\* TASK_UPDATED; if it is gone, `updated.completed` throws and the reply is INTERNAL.
UpdateTaskReget(r, fail) ==
    /\ req[r].op = "update" /\ req[r].pc = "reget"
    /\ LET updated == dbGet(req[r].tid, req[r].user)
       IN IF updated # {}
          THEN /\ notifyStreams(TASK_UPDATED, CHOOSE u \in updated : TRUE, fail)
               /\ req' = Reply(r, OK)
          ELSE /\ fail = {}
               /\ NoNotify
               /\ req' = Reply(r, INTERNAL)
    /\ UNCHANGED <<chatVars, authVars>>
    /\ UNCHANGED <<store, nextTaskId, call>>

\* A deleteTask that does not look at result.changes.
DeleteTaskRunIgnoresChanges(r, dbOk, fail) ==
    /\ req[r].op = "delete" /\ req[r].pc = "run"
    /\ IF dbOk
       THEN /\ store' = store \ dbGet(req[r].tid, req[r].user)
            /\ notifyStreams(TASK_DELETED, CHOOSE e \in req[r].existing : TRUE, fail)
            /\ req' = Reply(r, OK)
       ELSE /\ fail = {}
            /\ store' = store
            /\ NoNotify
            /\ req' = Reply(r, INTERNAL)
    /\ UNCHANGED <<chatVars, authVars>>
    /\ UNCHANGED <<nextTaskId, call>>

\* A deleteTask that dispatches before it looks at the outcome of the DELETE.
DeleteTaskRunNotifiesFirst(r, dbOk, fail) ==
    /\ req[r].op = "delete" /\ req[r].pc = "run"
    /\ LET matched == dbGet(req[r].tid, req[r].user)
       IN /\ notifyStreams(TASK_DELETED, CHOOSE e \in req[r].existing : TRUE, fail)
          /\ IF dbOk /\ matched # {}
             THEN /\ store' = store \ matched
                  /\ req' = Reply(r, OK)
             ELSE /\ store' = store
                  /\ req' = Reply(r, INTERNAL)
    /\ UNCHANGED <<chatVars, authVars>>
    /\ UNCHANGED <<nextTaskId, call>>

\* The DELETE completes (grpc.js:231-237): `existing`, read before it, is dispatched
\* as TASK_DELETED.
DeleteTaskRun(r, dbOk, fail) ==
    /\ req[r].op = "delete" /\ req[r].pc = "run"
    /\ LET matched == dbGet(req[r].tid, req[r].user)
       IN IF dbOk /\ matched # {}
          THEN /\ store' = store \ matched
               /\ notifyStreams(TASK_DELETED, CHOOSE e \in req[r].existing : TRUE, fail)
               /\ req' = Reply(r, OK)
          ELSE /\ fail = {}
               /\ store' = store
               /\ NoNotify
               /\ req' = Reply(r, INTERNAL)
    /\ UNCHANGED <<chatVars, authVars>>
    /\ UNCHANGED <<nextTaskId, call>>

\* ---------------------------------------------------------------- read requests
\* getTasks, getTask and getTaskStats up to their await of the database
\* (grpc.js:119-146, 163-171, 247-258). The request of getTasks carries no page
\* and no limit, so that their defaults apply and pass the range checks.
ReadStart(r, op, token, tid) ==
    /\ FreeReq(r)
    /\ LET v == validateToken(token)
       IN req' = [req EXCEPT ![r] =
              IF v.ok
              THEN [IdleReq EXCEPT !.op = op, !.pc = "read", !.user = v.id, !.tid = tid]
              ELSE [IdleReq EXCEPT !.op = op, !.pc = "done", !.resp = UNAUTHENTICATED]]
    /\ UNCHANGED <<chatVars, authVars>>
    /\ UNCHANGED <<store, nextTaskId, streamingSessions, call, out, events, dispatchSnapshot>>

GetTasksStart(r, token) == ReadStart(r, "getTasks", token, 0)

GetTaskStart(r, token, tid) == ReadStart(r, "getTask", token, tid)

GetTaskStatsStart(r, token) == ReadStart(r, "getTaskStats", token, 0)

\* The query of a read request answers and the handler replies.
ReadReply(r, op, code) ==
    /\ req[r].op = op /\ req[r].pc = "read"
    /\ req' = Reply(r, code)
    /\ UNCHANGED <<chatVars, authVars>>
    /\ UNCHANGED <<store, nextTaskId, streamingSessions, call, out, events, dispatchSnapshot>>

\* database.getAllWithPagination answers (grpc.js:136-151): the reply carries the
\* rows of the query, one page of the default limit holding all of them.
GetTasksRun(r, dbOk) ==
    /\ req[r].op = "getTasks" /\ req[r].pc = "read"
    /\ req' = IF dbOk
              THEN [Reply(r, OK) EXCEPT ![r].tasks = dbAllTasks(req[r].user, Undef)]
              ELSE Reply(r, INTERNAL)
    /\ UNCHANGED <<chatVars, authVars>>
    /\ UNCHANGED <<store, nextTaskId, streamingSessions, call, out, events, dispatchSnapshot>>

\* The SELECT of getTask answers (grpc.js:167-174): no row is NOT_FOUND.
GetTaskRun(r, dbOk) ==
    ReadReply(r, "getTask",
              IF ~dbOk THEN INTERNAL
              ELSE IF dbGet(req[r].tid, req[r].user) = {} THEN NOT_FOUND ELSE OK)

\* The aggregate query of getTaskStats answers (grpc.js:252-270).
GetTaskStatsRun(r, dbOk) == ReadReply(r, "getTaskStats", IF dbOk THEN OK ELSE INTERNAL)

\* ---------------------------------------------------------------- ChatService
\* ChatService.validateToken (part_001:11-26): the token of the authorization
\* metadata or of the request; none, or one that does not verify, throws
\* UNAUTHENTICATED.
chatValidateTokenAcceptsAll(token) == [ok |-> TRUE, id |-> token]

chatValidateToken(token) ==
    IF token = NoToken THEN [ok |-> FALSE, id |-> ""] ELSE validateToken(token)

\* The username claim of a user's token.
Username(id) == IF id = "u1" THEN "ana" ELSE "bob"

ChatMsg(room, text, senderId, senderName, type) ==
    [room |-> room, text |-> text, sender_id |-> senderId, sender_name |-> senderName,
     type |-> type]

ChatAttempt(threw, msg) == [threw |-> threw, msg |-> msg]

\* A join that sets the room to a new Set holding the joining call only.
EnsureAddReplace(rms, room, c) ==
    [rms EXCEPT ![room] = [present |-> TRUE, members |-> {c}]]

\* _ensureRoom(room) followed by set.add(call) (part_001:28-31, 77-79).
EnsureAdd(rms, room, c) ==
    [rms EXCEPT ![room] = [present |-> TRUE, members |-> @.members \cup {c}]]

\* A leave that keeps the entry of the room it empties.
DeleteMemberKeepRoom(rms, room, c) ==
    [rms EXCEPT ![room] = [present |-> TRUE, members |-> @.members \ {c}]]

\* set.delete(call); if (set.size === 0) this.rooms.delete(joinedRoom)
\* (part_001:54-56).
DeleteMember(rms, room, c) ==
    LET left == rms[room].members \ {c}
    IN [rms EXCEPT ![room] = IF left = {} THEN NoRoom
                             ELSE [present |-> TRUE, members |-> left]]

\* A broadcast whose try encloses the loop: it goes through the members in the
\* order of their calls and ends at the first write that throws.
BroadcastAbort(rms, o, room, message, exceptCall, fail) ==
    IF ~rms[room].present THEN o
    ELSE LET targets == {c \in rms[room].members : c # exceptCall}
             failing == targets \cap fail
         IN [c \in ChatCalls |->
                IF c \in targets /\ \A f \in failing : c <= f
                THEN Append(o[c], ChatAttempt(c \in fail, message))
                ELSE o[c]]

\* A broadcast that writes to every open call, whatever its room.
BroadcastAll(rms, o, room, message, exceptCall, fail) ==
    IF ~rms[room].present THEN o
    ELSE [c \in ChatCalls |->
             IF chat[c].opened /\ c # exceptCall
             THEN Append(o[c], ChatAttempt(c \in fail, message))
             ELSE o[c]]

\* _broadcast(room, message, exceptCall) (part_001:33-40) as the calls' logs after
\* it: a write that throws is caught and nothing else is done about it. exceptCall
\* 0 is null.
Broadcast(rms, o, room, message, exceptCall, fail) ==
    IF ~rms[room].present THEN o
    ELSE [c \in ChatCalls |->
             IF c \in rms[room].members /\ c # exceptCall
             THEN Append(o[c], ChatAttempt(c \in fail, message))
             ELSE o[c]]

\* A leaveRoom that broadcasts the Leave message before it deletes the call from
\* the room.
LeaveRoomBroadcastFirst(c, fail) ==
    IF chat[c].joinedRoom # Undef
       /\ rooms[CHOOSE r \in chat[c].joinedRoom : TRUE].present
    THEN LET room == CHOOSE r \in chat[c].joinedRoom : TRUE
             name == IF chat[c].user # Undef
                     THEN Username(CHOOSE u \in chat[c].user : TRUE) ELSE ""
             leaveMsg == ChatMsg(room,
                                 <<IF name # "" THEN name ELSE "alguém", " saiu da sala">>,
                                 IF chat[c].user # Undef
                                 THEN CHOOSE u \in chat[c].user : TRUE ELSE "",
                                 name, 2)
         IN [rooms |-> DeleteMember(rooms, room, c),
             out |-> Broadcast(rooms, chatOut, room, leaveMsg, 0, fail)]
    ELSE [rooms |-> rooms, out |-> chatOut]

\* leaveRoom() (part_001:50-67) as the next rooms, logs and joinedRoom of call c.
LeaveRoom(c, fail) ==
    IF chat[c].joinedRoom # Undef
       /\ rooms[CHOOSE r \in chat[c].joinedRoom : TRUE].present
    THEN LET room == CHOOSE r \in chat[c].joinedRoom : TRUE
             rms == DeleteMember(rooms, room, c)
             name == IF chat[c].user # Undef
                     THEN Username(CHOOSE u \in chat[c].user : TRUE) ELSE ""
             leaveMsg == ChatMsg(room,
                                 <<IF name # "" THEN name ELSE "alguém", " saiu da sala">>,
                                 IF chat[c].user # Undef
                                 THEN CHOOSE u \in chat[c].user : TRUE ELSE "",
                                 name, 2)
         IN [rooms |-> rms, out |-> Broadcast(rms, chatOut, room, leaveMsg, 0, fail)]
    ELSE [rooms |-> rooms, out |-> chatOut]

\* Chat(call) (part_001:44-131): the closure is created and the four handlers are
\* installed.
ChatOpen(c, token) ==
    /\ ~chat[c].opened
    /\ \A d \in ChatCalls : d < c => chat[d].opened
    /\ chat' = [chat EXCEPT ![c].opened = TRUE, ![c].token = token]
    /\ UNCHANGED <<rooms, chatOut, nData>>
    /\ UNCHANGED <<taskVars, authVars>>

\* The 'data' handler from after the token check (part_001:73-112), for a call
\* whose user is `id`: the next rooms, logs and locals of call c. A throw (an empty
\* room, a welcome write that fails) is caught at the end and destroys the call.
DataBody(c, id, msg, fail) ==
    LET room == Trim(msg.room)
        joining == chat[c].joinedRoom = Undef
        joined == IF joining THEN room ELSE CHOOSE r \in chat[c].joinedRoom : TRUE
        rms1 == IF joining THEN EnsureAdd(rooms, room, c) ELSE rooms
        joinMsg == ChatMsg(room, <<Username(id), " entrou na sala">>, id, Username(id), 1)
        o1 == IF joining THEN Broadcast(rms1, chatOut, room, joinMsg, 0, fail)
              ELSE chatOut
        welcome == ChatMsg(room, <<"Bem-vindo à sala ">> \o room \o <<"!">>,
                           "system", "system", 3)
        o2 == IF joining THEN [o1 EXCEPT ![c] = Append(@, ChatAttempt(c \in fail, welcome))]
              ELSE o1
        welcomeThrew == joining /\ c \in fail
        text == Trim(msg.text)
        outMsg == ChatMsg(joined, text, id, Username(id), 0)
        o3 == IF text # <<>> THEN Broadcast(rms1, o2, joined, outMsg, 0, fail) ELSE o2
    IN IF room = <<>>
       THEN [rooms |-> rooms, out |-> chatOut,
             chat |-> [chat[c] EXCEPT !.user = Some(id), !.destroyed = TRUE]]
       ELSE IF welcomeThrew
       THEN [rooms |-> rms1, out |-> o2,
             chat |-> [chat[c] EXCEPT !.user = Some(id), !.joinedRoom = Some(joined),
                                      !.destroyed = TRUE]]
       ELSE [rooms |-> rms1, out |-> o3,
             chat |-> [chat[c] EXCEPT !.user = Some(id), !.joinedRoom = Some(joined)]]

\* A message arrives on an open call (part_001:69-72). With user still null the
\* handler calls validateToken and is suspended on its await; otherwise it runs to
\* its end.
ChatData(c, room, text, fail) ==
    /\ chat[c].opened /\ chat[c].signals = {} /\ ~chat[c].destroyed
    /\ nData < MaxChatData
    /\ nData' = nData + 1
    /\ UNCHANGED <<taskVars, authVars>>
    /\ LET msg == [room |-> room, text |-> text]
       IN IF chat[c].user = Undef
          THEN /\ fail = {}
               /\ chat' = [chat EXCEPT ![c].pending = Append(@, msg),
                                       ![c].verifications = @ + 1]
               /\ UNCHANGED <<rooms, chatOut>>
          ELSE LET r == DataBody(c, CHOOSE u \in chat[c].user : TRUE, msg, fail)
               IN /\ rooms' = r.rooms
                  /\ chatOut' = r.out
                  /\ chat' = [chat EXCEPT ![c] = r.chat]

\* The oldest suspended handler of call c resumes (part_001:71-115): validateToken
\* threw, and the catch destroys the call, or `user` is assigned and the handler
\* runs to its end.
ChatResume(c, fail) ==
    /\ chat[c].pending # <<>>
    /\ LET msg == Head(chat[c].pending)
           v == chatValidateToken(chat[c].token)
       IN IF ~v.ok
          THEN /\ fail = {}
               /\ chat' = [chat EXCEPT ![c].pending = Tail(@), ![c].destroyed = TRUE]
               /\ UNCHANGED <<rooms, chatOut>>
          ELSE LET r == DataBody(c, v.id, msg, fail)
               IN /\ rooms' = r.rooms
                  /\ chatOut' = r.out
                  /\ chat' = [chat EXCEPT ![c] = [r.chat EXCEPT !.pending = Tail(@)]]
    /\ nData' = nData
    /\ UNCHANGED <<taskVars, authVars>>

RECURSIVE ChatSignalCount(_)
ChatSignalCount(cs) ==
    IF cs = {} THEN 0
    ELSE LET c == CHOOSE x \in cs : TRUE
         IN Cardinality(chat[c].signals) + ChatSignalCount(cs \ {c})

\* 'end', 'cancelled' or 'error' on call c, each once (part_001:117-130):
\* leaveRoom(), then safeEnd().
ChatSignal(c, sig, fail) ==
    /\ chat[c].opened
    /\ sig \notin chat[c].signals
    /\ ChatSignalCount(ChatCalls) < MaxChatSignals
    /\ LET r == LeaveRoom(c, fail)
       IN /\ rooms' = r.rooms
          /\ chatOut' = r.out
          /\ chat' = [chat EXCEPT ![c].signals = @ \cup {sig}, ![c].joinedRoom = Undef,
                                  ![c].ended = TRUE]
    /\ nData' = nData
    /\ UNCHANGED <<taskVars, authVars>>

\* ---------------------------------------------------------------- authInterceptor
\* A header value is a sequence of characters; a JWT is one symbol of it.
BearerPrefix == <<"B", "e", "a", "r", "e", "r", " ">>
SliceStart == 7

\* The methods the interceptor is configured to let through, and the paths of the
\* calls (a method definition without a path reads as '').
PublicMethods == {"/auth.AuthService/Login"}
Paths == PublicMethods \cup {"/tasks.TaskService/GetTasks", ""}

\* The first value of the authorization metadata: a token behind 'Bearer ', a
\* bare token, the prefix alone, and values that only resemble the prefix.
HeaderValues ==
    {BearerPrefix \o <<"u1">>, BearerPrefix \o <<BadToken>>, <<"u2">>, <<BadToken>>,
     BearerPrefix, <<"b", "e", "a", "r", "e", "r", " ", "u1">>,
     <<"B", "e", "a", "r", "e", "r", "u1">>}

\* call.metadata: undefined, or the values of its authorization key.
MetadataInputs == {Undef} \cup {Some(<<>>)} \cup {Some(<<h>>) : h \in HeaderValues}

\* call.request: undefined (a client-streaming call), or a message whose token is
\* '' when it is not set.
RequestInputs == {Undef} \cup {Some([token |-> t]) : t \in {<<>>, <<"u1">>, <<BadToken>>}}

\* raw.startsWith('Bearer ') ? raw.slice(7) : raw (auth.js:24).
HeaderToken(raw) ==
    IF Len(raw) >= Len(BearerPrefix) /\ SubSeq(raw, 1, Len(BearerPrefix)) = BearerPrefix
    THEN SubSeq(raw, SliceStart + 1, Len(raw))
    ELSE raw

\* The token the interceptor verifies (auth.js:17-31); <<>> is a falsy token.
ExtractToken(md, request) ==
    LET values == IF md = Undef THEN <<>> ELSE CHOOSE v \in md : TRUE
        fromHeader == IF values # <<>> THEN HeaderToken(values[1]) ELSE <<>>
    IN IF fromHeader # <<>> THEN fromHeader
       ELSE IF request # Undef THEN (CHOOSE q \in request : TRUE).token
       ELSE <<>>

\* jwt.verify(token, jwtSecret): the payload of a token signed with the secret,
\* or a throw.
jwtVerify(token) ==
    IF Len(token) = 1 /\ token[1] \in Users
    THEN Some([id |-> token[1], username |-> Username(token[1])])
    ELSE Undef

NoOutcome == [next |-> 0, status |-> Undef, user |-> Undef, threw |-> FALSE]

InvalidToken == Some([code |-> UNAUTHENTICATED, details |-> "Token inválido ou expirado"])
MissingToken == Some([code |-> UNAUTHENTICATED, details |-> "Token de autenticação ausente"])

\* The function authInterceptor returns (auth.js:9-51), as what it does to a
\* call: the number of times it calls next, the status it sends, call.user and
\* whether it throws. next is the caller's continuation and may throw: on a
\* public path the exception leaves the interceptor (auth.js:13-15); after a
\* successful jwt.verify, `return next(call)` is inside the try, and its catch
\* answers the exception of next like that of jwt.verify (auth.js:40-50).
authInterceptor(path, md, request, nextThrows) ==
    LET token == ExtractToken(md, request)
    IN IF path \in PublicMethods
       THEN [NoOutcome EXCEPT !.next = 1, !.threw = nextThrows]
       ELSE IF token = <<>>
       THEN [NoOutcome EXCEPT !.status = MissingToken]
       ELSE IF jwtVerify(token) # Undef
       THEN [NoOutcome EXCEPT !.next = 1, !.user = jwtVerify(token),
                              !.status = IF nextThrows THEN InvalidToken ELSE Undef]
       ELSE [NoOutcome EXCEPT !.status = InvalidToken]

\* A call arrives at the server and passes through the interceptor.
Intercept(path, md, request, nextThrows) ==
    /\ Len(auth) < MaxAuthCalls
    /\ auth' = Append(auth, [path |-> path, metadata |-> md, request |-> request,
                             did |-> authInterceptor(path, md, request, nextThrows)])
    /\ UNCHANGED <<taskVars, chatVars>>

\* ---------------------------------------------------------------- specification
\* TaskService with its streams and requests.
Next ==
    \/ \E c \in Calls, token \in Tokens, completed \in OptBool :
           StreamTasksOpen(c, token, completed)
    \/ \E c \in Calls, threw \in BOOLEAN : StreamTasksRows(c, threw)
    \/ \E c \in Calls, threw \in BOOLEAN : StreamTasksTick(c, threw)
    \/ \E c \in Calls, token \in Tokens, threw \in BOOLEAN :
           StreamNotificationsOpen(c, token, threw)
    \/ \E c \in Calls, sig \in Signals : Signal(c, sig)
    \/ \E r \in Reqs, token \in Tokens, title \in TitleInputs :
           CreateTaskStart(r, token, title)
    \/ \E r \in Reqs, dbOk \in BOOLEAN, fail \in SUBSET Calls : CreateTaskRun(r, dbOk, fail)
    \/ \E r \in Reqs, token \in Tokens, tid \in TaskIds, u \in UpdateInputs :
           UpdateTaskStart(r, token, tid, u.title, u.completed)
    \/ \E r \in Reqs, token \in Tokens, tid \in TaskIds : DeleteTaskStart(r, token, tid)
    \/ \E r \in Reqs : MutationGet(r)
    \/ \E r \in Reqs, dbOk \in BOOLEAN : UpdateTaskRun(r, dbOk)
    \/ \E r \in Reqs, fail \in SUBSET Calls : UpdateTaskReget(r, fail)
    \/ \E r \in Reqs, dbOk \in BOOLEAN, fail \in SUBSET Calls : DeleteTaskRun(r, dbOk, fail)

Spec == Init /\ [][Next]_vars

\* TaskService with requests that overlap: two requests may be in flight at the
\* same time, both started before the first dispatch, so that a run makes up to
\* two notifyStreams calls.
InitRace ==
    /\ store = {Row(1, "u1", FALSE, <<"a">>)}
    /\ nextTaskId = 2
    /\ streamingSessions = <<>>
    /\ call = [c \in Calls |-> IdleCall]
    /\ out = [c \in Calls |-> <<>>]
    /\ req = [r \in RaceReqs |-> IdleReq]
    /\ events = <<>>
    /\ dispatchSnapshot = <<>>
    /\ rooms = [r \in RoomNames |-> NoRoom]
    /\ chat = [c \in ChatCalls |-> IdleChat]
    /\ chatOut = [c \in ChatCalls |-> <<>>]
    /\ nData = 0
    /\ auth = <<>>

NextRace ==
    \/ \E c \in RaceCalls, token \in Tokens, completed \in OptBool :
           StreamTasksOpen(c, token, completed)
    \/ \E c \in RaceCalls, threw \in BOOLEAN : StreamTasksRows(c, threw)
    \/ \E c \in RaceCalls, threw \in BOOLEAN : StreamTasksTick(c, threw)
    \/ \E c \in RaceCalls, token \in Tokens, threw \in BOOLEAN :
           StreamNotificationsOpen(c, token, threw)
    \/ \E c \in RaceCalls, sig \in Signals : Signal(c, sig)
    \/ \E r \in RaceReqs, token \in Tokens, title \in TitleInputs :
           CreateTaskStart(r, token, title)
    \/ \E r \in RaceReqs, dbOk \in BOOLEAN, fail \in SUBSET RaceCalls :
           CreateTaskRun(r, dbOk, fail)
    \/ \E r \in RaceReqs, token \in Tokens, tid \in TaskIds, u \in UpdateInputs :
           UpdateTaskStart(r, token, tid, u.title, u.completed)
    \/ \E r \in RaceReqs, token \in Tokens, tid \in TaskIds :
           DeleteTaskStart(r, token, tid)
    \/ \E r \in RaceReqs : MutationGet(r)
    \/ \E r \in RaceReqs, dbOk \in BOOLEAN : UpdateTaskRun(r, dbOk)
    \/ \E r \in RaceReqs, fail \in SUBSET RaceCalls : UpdateTaskReget(r, fail)
    \/ \E r \in RaceReqs, dbOk \in BOOLEAN, fail \in SUBSET RaceCalls :
           DeleteTaskRun(r, dbOk, fail)

SpecRace == InitRace /\ [][NextRace]_vars

\* updateTask requests that name one field each: the title only, or the
\* completed flag only (the fields a request leaves out are undefined).
DisjointUpdateInputs ==
    {[title |-> Some(<<"b">>), completed |-> Undef],
     [title |-> Undef, completed |-> Some(TRUE)]}

\* TaskService under overlapping updateTask requests of one field each, with a
\* notification stream that observes the dispatches.
NextUpdates ==
    \/ \E c \in RaceCalls, token \in Tokens, threw \in BOOLEAN :
           StreamNotificationsOpen(c, token, threw)
    \/ \E r \in RaceReqs, token \in Tokens, tid \in TaskIds, u \in DisjointUpdateInputs :
           UpdateTaskStart(r, token, tid, u.title, u.completed)
    \/ \E r \in RaceReqs : MutationGet(r)
    \/ \E r \in RaceReqs, dbOk \in BOOLEAN : UpdateTaskRun(r, dbOk)
    \/ \E r \in RaceReqs, fail \in SUBSET RaceCalls : UpdateTaskReget(r, fail)

SpecUpdates == InitRace /\ [][NextUpdates]_vars

\* TaskService with all of its unary operations, the reads included, and its
\* stream opens; one request at a time and no transport signal.
NextUnary ==
    \/ \E c \in Calls, token \in RequestTokens, completed \in OptBool :
           StreamTasksOpen(c, token, completed)
    \/ \E c \in Calls, threw \in BOOLEAN : StreamTasksRows(c, threw)
    \/ \E c \in Calls, threw \in BOOLEAN : StreamTasksTick(c, threw)
    \/ \E c \in Calls, token \in RequestTokens, threw \in BOOLEAN :
           StreamNotificationsOpen(c, token, threw)
    \/ \E r \in Reqs, token \in RequestTokens, title \in TitleInputs :
           CreateTaskStart(r, token, title)
    \/ \E r \in Reqs, dbOk \in BOOLEAN, fail \in SUBSET Calls : CreateTaskRun(r, dbOk, fail)
    \/ \E r \in Reqs, token \in RequestTokens, tid \in TaskIds, u \in UpdateInputs :
           UpdateTaskStart(r, token, tid, u.title, u.completed)
    \/ \E r \in Reqs, token \in RequestTokens, tid \in TaskIds : DeleteTaskStart(r, token, tid)
    \/ \E r \in Reqs : MutationGet(r)
    \/ \E r \in Reqs, dbOk \in BOOLEAN : UpdateTaskRun(r, dbOk)
    \/ \E r \in Reqs, fail \in SUBSET Calls : UpdateTaskReget(r, fail)
    \/ \E r \in Reqs, dbOk \in BOOLEAN, fail \in SUBSET Calls : DeleteTaskRun(r, dbOk, fail)
    \/ \E r \in Reqs, token \in RequestTokens : GetTasksStart(r, token)
    \/ \E r \in Reqs, dbOk \in BOOLEAN : GetTasksRun(r, dbOk)
    \/ \E r \in Reqs, token \in RequestTokens, tid \in TaskIds : GetTaskStart(r, token, tid)
    \/ \E r \in Reqs, dbOk \in BOOLEAN : GetTaskRun(r, dbOk)
    \/ \E r \in Reqs, token \in RequestTokens : GetTaskStatsStart(r, token)
    \/ \E r \in Reqs, dbOk \in BOOLEAN : GetTaskStatsRun(r, dbOk)

SpecUnary == Init /\ [][NextUnary]_vars

\* The interceptor in front of the services.
NextAuth ==
    \E path \in Paths, md \in MetadataInputs, request \in RequestInputs,
       nextThrows \in BOOLEAN :
        Intercept(path, md, request, nextThrows)

SpecAuth == Init /\ [][NextAuth]_vars

\* ChatService with its Chat calls.
NextChat ==
    \/ \E c \in ChatCalls, token \in Tokens : ChatOpen(c, token)
    \/ \E c \in ChatCalls, room \in RoomInputs, text \in TextInputs,
          fail \in SUBSET ChatCalls : ChatData(c, room, text, fail)
    \/ \E c \in ChatCalls, fail \in SUBSET ChatCalls : ChatResume(c, fail)
    \/ \E c \in ChatCalls, sig \in ChatSignals, fail \in SUBSET ChatCalls :
           ChatSignal(c, sig, fail)

SpecChat == Init /\ [][NextChat]_vars

\* ================================================================ properties
HasSession(c) == \E i \in 1..Len(streamingSessions) : streamingSessions[i].call = c

\* The latest notifyStreams call, the sessions registered when it was made and
\* the write attempts it made on call c.
Latest == events[Len(events)]
Registered == {dispatchSnapshot[i] : i \in 1..Len(dispatchSnapshot)}
AttemptsOf(c) == SelectSeq(out[c], LAMBDA a : a.ev = Len(events))
NotifyAttempts(o) == SelectSeq(o, LAMBDA a : a.ev > 0)

\* C1 (as claimed): a call has an entry in streamingSessions if and only if its
\* stream went live and the call is open: no cancel, error or close was signalled
\* on it and the server did not destroy it.
C1_SessionIffOpen ==
    \A c \in Calls :
        HasSession(c) <=>
            (call[c].pc = "live" /\ call[c].signals = {} /\ ~call[c].destroyed)

\* C2 (as claimed): once a call's cancel was signalled, no step makes notifyStreams
\* attempt a write on that call.
C2_NoWriteAfterCancel ==
    [][\A c \in Calls :
          "cancelled" \in call[c].signals
              => NotifyAttempts(out'[c]) = NotifyAttempts(out[c])]_vars

\* C3 (as claimed): a close, cancel or error signal on a call that has a session
\* removes that session, whichever of the three it is.
C3_SignalRemovesSession ==
    [][\A c \in Calls :
          (HasSession(c) /\ call'[c].signals # call[c].signals)
              => ~(\E i \in 1..Len(streamingSessions') :
                       streamingSessions'[i].call = c)]_vars

\* C4 (as claimed): a Chat call on which end, cancelled or error was handled and
\* no data handler is suspended any more is a member of no room.
C4_NoMembershipAfterSignal ==
    \A c \in ChatCalls :
        (chat[c].signals # {} /\ chat[c].pending = <<>>)
            => \A r \in RoomNames : c \notin rooms[r].members

\* C5: a room name is a key of rooms exactly when its member set is not empty.
C5_RoomPresentIffNonEmpty ==
    \A r \in RoomNames : rooms[r].present <=> rooms[r].members # {}

\* C5 witness: a call joined a room (it was sent the welcome), then left it on a
\* signal, and the room it emptied is no key of rooms any more.
C5_Witness ==
    \E c \in ChatCalls :
        /\ chat[c].signals # {}
        /\ \E i \in 1..Len(chatOut[c]) :
               /\ chatOut[c][i].msg.type = 3
               /\ ~rooms[chatOut[c][i].msg.room].present
        /\ \A r \in RoomNames : ~rooms[r].present

\* C6: the latest notifyStreams call made no write attempt on the call of a
\* session whose userId differs from the task's owner.
C6_OwnerIsolation ==
    events # <<>> =>
        \A s \in Registered :
            s.userId # Latest.task.userId => AttemptsOf(s.call) = <<>>

\* C6 witness: a dispatch for one user's task with a session of the other user and
\* a session of the owner registered; the owner's session was written to.
C6_Witness ==
    /\ events # <<>>
    /\ \E s, t \in Registered :
           /\ s.userId # Latest.task.userId
           /\ t.userId = Latest.task.userId
           /\ AttemptsOf(t.call) # <<>>

\* C7: for a Created or Updated event, a task-stream session of the task's owner
\* is written the task, once, if its filter is absent or equals task.completed,
\* and is written nothing otherwise.
C7_FilterCorrect ==
    (events # <<>> /\ Latest.action \in {TASK_CREATED, TASK_UPDATED}) =>
        \A s \in Registered :
            (s.type # "notifications" /\ s.userId = Latest.task.userId) =>
                IF s.filter \in {Some(Undef), Some(Some(Latest.task.completed))}
                THEN /\ Len(AttemptsOf(s.call)) = 1
                     /\ AttemptsOf(s.call)[1].msg = TaskPayload(Latest.task)
                ELSE AttemptsOf(s.call) = <<>>

\* C7 witness: a session with filter completed=false whose owner's task was
\* updated to completed=true, and a session with filter completed=true that was
\* written that task.
C7_Witness ==
    /\ events # <<>>
    /\ Latest.action = TASK_UPDATED
    /\ Latest.task.completed
    /\ \E s, t \in Registered :
           /\ s.userId = Latest.task.userId /\ s.filter = Some(Some(FALSE))
           /\ AttemptsOf(s.call) = <<>>
           /\ t.userId = Latest.task.userId /\ t.filter = Some(Some(TRUE))
           /\ Len(AttemptsOf(t.call)) = 1

\* C8: a deleteTask that reports success has dispatched TASK_DELETED; for a
\* TASK_DELETED event every registered notification session of the owner is
\* written exactly one envelope of type 2 (Deleted) carrying the task, and no
\* task-stream session is written anything.
C8_DeletedDelivery ==
    /\ \A r \in Reqs :
           (req[r].op = "delete" /\ req[r].resp = OK) =>
               \E k \in 1..Len(events) : events[k].action = TASK_DELETED
    /\ (events # <<>> /\ Latest.action = TASK_DELETED) =>
           \A s \in Registered :
               IF s.type = "notifications"
               THEN s.userId = Latest.task.userId =>
                        /\ Len(AttemptsOf(s.call)) = 1
                        /\ AttemptsOf(s.call)[1].msg.kind = "notification"
                        /\ AttemptsOf(s.call)[1].msg.type = 2
                        /\ AttemptsOf(s.call)[1].msg.task = Some(Latest.task)
               ELSE AttemptsOf(s.call) = <<>>

\* C8 witness: a task was deleted while a notification session and an unfiltered
\* task-stream session of its owner were registered.
C8_Witness ==
    /\ events # <<>>
    /\ Latest.action = TASK_DELETED
    /\ \E s, t \in Registered :
           /\ s.type = "notifications" /\ s.userId = Latest.task.userId
           /\ Len(AttemptsOf(s.call)) = 1
           /\ t.type # "notifications" /\ t.userId = Latest.task.userId
           /\ t.filter = Some(Undef)

\* C9: for every event, every registered notification session of the task's owner
\* is written an envelope of the event's type (Created 0, Updated 1, Deleted 2)
\* carrying the event's task, whatever the task's completed value.
C9_NotificationEnvelope ==
    events # <<>> =>
        \A s \in Registered :
            (s.type = "notifications" /\ s.userId = Latest.task.userId) =>
                \E i \in 1..Len(AttemptsOf(s.call)) :
                    LET m == AttemptsOf(s.call)[i].msg
                    IN /\ m.kind = "notification"
                       /\ m.task = Some(Latest.task)
                       /\ Latest.action = TASK_CREATED => m.type = 0
                       /\ Latest.action = TASK_UPDATED => m.type = 1
                       /\ Latest.action = TASK_DELETED => m.type = 2

\* C9 witness: an update to completed=true reached a notification session.
C9_Witness ==
    /\ events # <<>>
    /\ Latest.action = TASK_UPDATED
    /\ Latest.task.completed
    /\ \E s \in Registered :
           /\ s.type = "notifications" /\ s.userId = Latest.task.userId
           /\ AttemptsOf(s.call) # <<>>

\* Whether the event matches the session: the owner's notification session, or
\* the owner's task stream whose filter lets a Created or Updated task through.
Matches(s, e) ==
    /\ s.userId = e.task.userId
    /\ \/ s.type = "notifications"
       \/ /\ e.action # TASK_DELETED
          /\ s.filter \in {Some(Undef), Some(Some(e.task.completed))}

\* C10: one notifyStreams call attempts exactly one write on the call of every
\* registered session the event matches, also when the write throws and when
\* another session is removed in the same dispatch.
C10_ExactlyOneAttempt ==
    events # <<>> =>
        \A s \in Registered : Matches(s, Latest) => Len(AttemptsOf(s.call)) = 1

\* C10 witness: two matching sessions; the write to the first threw, which removed
\* it, and the second was still written once.
C10_Witness ==
    /\ events # <<>>
    /\ Len(dispatchSnapshot) = 2
    /\ Matches(dispatchSnapshot[1], Latest)
    /\ Matches(dispatchSnapshot[2], Latest)
    /\ AttemptsOf(dispatchSnapshot[1].call)[1].threw
    /\ ~HasSession(dispatchSnapshot[1].call)
    /\ Len(AttemptsOf(dispatchSnapshot[2].call)) = 1

\* The write attempts a step adds to the log of call c.
NewAttempts(c) == SubSeq(out'[c], Len(out[c]) + 1, Len(out'[c]))

\* C11: a step that makes a notifyStreams call attempts one write of the event on
\* the call of every session the event matches, whichever of these writes throw,
\* and leaves in streamingSessions exactly the sessions whose write did not throw,
\* in their order.
C11_FailureIsolated ==
    [][events' # events =>
          LET e == events'[Len(events')]
              Threw(s) == /\ Matches(s, e)
                          /\ NewAttempts(s.call) # <<>>
                          /\ NewAttempts(s.call)[1].threw
          IN /\ \A i \in 1..Len(streamingSessions) :
                    Matches(streamingSessions[i], e) =>
                        /\ Len(NewAttempts(streamingSessions[i].call)) = 1
                        /\ NewAttempts(streamingSessions[i].call)[1].ev = Len(events')
                 /\ streamingSessions' = SelectSeq(streamingSessions, LAMBDA s : ~Threw(s))]_vars

\* C11 witness: two sessions matched the event; the write to the first threw and
\* removed it, the write to the second succeeded and its session is still there.
C11_Witness ==
    /\ events # <<>>
    /\ Len(dispatchSnapshot) = 2
    /\ Matches(dispatchSnapshot[1], Latest)
    /\ Matches(dispatchSnapshot[2], Latest)
    /\ AttemptsOf(dispatchSnapshot[1].call)[1].threw
    /\ ~AttemptsOf(dispatchSnapshot[2].call)[1].threw
    /\ streamingSessions = <<dispatchSnapshot[2]>>

\* C12: a step that makes a notifyStreams call in which a write throws still
\* answers the mutation's caller with success, and the store holds what the
\* mutation wrote: the created or updated row is in it, the deleted row is not.
C12_WriteFailureNotPropagated ==
    [][(/\ events' # events
        /\ \E c \in Calls : NewAttempts(c) # <<>> /\ NewAttempts(c)[1].threw) =>
          LET e == events'[Len(events')]
          IN /\ \E r \in DOMAIN req :
                    Handling(r) /\ req'[r].pc = "done" /\ req'[r].resp = OK
             /\ IF e.action = TASK_DELETED
                THEN \A row \in store' : row.id # e.task.id
                ELSE e.task \in store']_vars

\* C12 witness: a createTask whose dispatch had a write throw was answered OK and
\* the created row is in the store.
C12_Witness ==
    /\ events # <<>>
    /\ Latest.action = TASK_CREATED
    /\ \E c \in Calls : AttemptsOf(c) # <<>> /\ AttemptsOf(c)[1].threw
    /\ \E r \in DOMAIN req :
           req[r].op = "create" /\ req[r].pc = "done" /\ req[r].resp = OK
    /\ Latest.task \in store

\* C13: a step makes a notifyStreams call only for a mutation whose store write
\* went through: the created row enters the store in that step, the UPDATE of
\* the updating request has completed with a changed row, the deleted row leaves
\* the store in that step. A request that is answered with an error in a step
\* makes no notifyStreams call and no write on any call in that step.
C13_DispatchOnlyAfterCommit ==
    [][/\ events' # events =>
              LET e == events'[Len(events')]
              IN \E r \in DOMAIN req :
                     /\ Handling(r) /\ req'[r].pc = "done"
                     /\ CASE e.action = TASK_CREATED ->
                                 /\ req[r].op = "create"
                                 /\ e.task \in store' /\ e.task \notin store
                          [] e.action = TASK_UPDATED ->
                                 /\ req[r].op = "update" /\ req[r].pc = "reget"
                                 /\ e.task \in store
                          [] e.action = TASK_DELETED ->
                                 /\ req[r].op = "delete"
                                 /\ \E row \in store : row.id = e.task.id
                                 /\ \A row \in store' : row.id # e.task.id
       /\ \A r \in DOMAIN req :
              (Handling(r) /\ req'[r].pc = "done" /\ req'[r].resp # OK) =>
                  /\ events' = events
                  /\ out' = out]_vars

\* C13 witness: an updateTask and a deleteTask of the same task overlapped; the
\* delete committed and was dispatched to a session, the update was answered
\* INTERNAL and nothing was dispatched for it.
C13_Witness ==
    /\ Len(events) = 1
    /\ Latest.action = TASK_DELETED
    /\ \E c \in Calls : AttemptsOf(c) # <<>> /\ NotifyAttempts(out[c]) = AttemptsOf(c)
    /\ \E r, q \in DOMAIN req :
           /\ req[r].op = "update" /\ req[r].pc = "done" /\ req[r].resp = INTERNAL
           /\ req[q].op = "delete" /\ req[q].pc = "done" /\ req[q].resp = OK

\* C14: on every call, the writes made by notifyStreams are in the order of the
\* notifyStreams calls: a write of a later call never precedes a write of an
\* earlier one, and each write carries the task of its own call.
C14_PerSessionFifo ==
    \A c \in Calls :
        LET a == NotifyAttempts(out[c])
        IN /\ \A i, j \in 1..Len(a) : i < j => a[i].ev < a[j].ev
           /\ \A i \in 1..Len(a) : a[i].msg.task = Some(events[a[i].ev].task)

\* C14 witness: one session was written two events with different payloads, the
\* first call's before the second's.
C14_Witness ==
    \E c \in Calls :
        LET a == NotifyAttempts(out[c])
        IN /\ Len(a) = 2
           /\ a[1].ev = 1 /\ a[2].ev = 2
           /\ a[1].msg # a[2].msg
           /\ ~a[1].threw

\* C15 (as claimed): of two overlapping mutations of one task, the one whose
\* write committed first is dispatched first, and each event carries the state
\* its own write produced. An updateTask whose UPDATE has committed and that has
\* yet to dispatch is not overtaken by the event of a deleteTask that commits
\* later, and the task it dispatches is the row its own UPDATE wrote.
C15_CommitOrderDispatch ==
    [][\A r \in DOMAIN req :
          (req[r].op = "update" /\ req[r].pc = "reget" /\ events' # events) =>
              LET e == events'[Len(events')]
              IN IF req'[r].pc = "done"
                 THEN e.task = updateData(r)
                 ELSE ~(e.action = TASK_DELETED /\ e.task.id = req[r].tid)]_vars

\* The places in the log of Chat call c of the write attempts a step adds.
NewChatAttempts(c) == (Len(chatOut[c]) + 1)..Len(chatOut'[c])

\* C16 (as claimed): a Text message carries a non-empty trimmed text, and a call
\* is never written a Text message of its own: when no other call has its user,
\* no Text message with its user as the sender is in its log.
C16_TextExcludesSender ==
    \A c \in ChatCalls : \A i \in 1..Len(chatOut[c]) :
        LET m == chatOut[c][i].msg
        IN m.type = 0 =>
               /\ m.text # <<>> /\ Trim(m.text) = m.text
               /\ (\A d \in ChatCalls \ {c} : chat[d].user # chat[c].user) =>
                      Some(m.sender_id) # chat[c].user

\* C17: when the write of a broadcast message to one member throws in a step,
\* every member of the message's room is written that message in that step.
C17_BroadcastContinues ==
    [][\A c \in ChatCalls : \A i \in NewChatAttempts(c) :
          (chatOut'[c][i].threw /\ chatOut'[c][i].msg.type # 3) =>
              \A d \in rooms'[chatOut'[c][i].msg.room].members :
                  \E j \in NewChatAttempts(d) : chatOut'[d][j].msg = chatOut'[c][i].msg]_vars

\* C17 witness: both calls are members of one room, the first call the older
\* member; a Text message was broadcast, its write to the first call threw and
\* the second call was still written it.
C17_Witness ==
    \E r \in RoomNames :
        /\ rooms[r].members = ChatCalls
        /\ chatOut[1][1].msg.type = 1 /\ Len(chatOut[1]) > 2
        /\ \E i \in 1..Len(chatOut[1]), j \in 1..Len(chatOut[2]) :
               /\ chatOut[1][i].msg = chatOut[2][j].msg
               /\ chatOut[1][i].msg.type = 0
               /\ chatOut[1][i].threw /\ ~chatOut[2][j].threw

\* C18 (as claimed): after a step that broadcasts a message, the members whose
\* write threw are no longer in the room, and those whose write went through are.
C18_FailingMemberRemoved ==
    [][\A c \in ChatCalls : \A i \in NewChatAttempts(c) :
          chatOut'[c][i].msg.type # 3 =>
              (chatOut'[c][i].threw <=>
                   c \notin rooms'[chatOut'[c][i].msg.room].members)]_vars

\* C19 (as claimed): a further end, cancelled or error on a Chat call that has
\* handled one changes neither rooms nor what any call is sent, and a further
\* signal on a streaming call changes nothing in streamingSessions.
C19_CleanupIdempotent ==
    [][/\ \A c \in ChatCalls :
              (chat[c].signals # {} /\ chat'[c].signals # chat[c].signals) =>
                  rooms' = rooms /\ chatOut' = chatOut
       /\ \A c \in Calls :
              (call[c].signals # {} /\ call'[c].signals # call[c].signals) =>
                  streamingSessions' = streamingSessions]_vars

NextMsg(c) == Head(chat[c].pending)
TokenOk(c) == chat[c].token \in Users
InRooms(c) == {r \in RoomNames : c \in rooms[r].members}
CountIn(o, P(_)) == Cardinality({i \in 1..Len(o) : P(o[i])})

\* C21: when the handler of a message with a non-empty room R runs on a call
\* with a valid token that has joined no room, the call is added to R (R becomes
\* a key of rooms, the other rooms are untouched), every call that was in R is
\* written the Join message of the joining user exactly once, the joining call
\* is written exactly one System welcome for R, and joinedRoom is R; joinedRoom
\* then stays R in every step that handles no end, cancelled or error.
C21_FirstMessageJoins ==
    [][\A c \in ChatCalls :
          /\ \A fail \in SUBSET ChatCalls :
                 (/\ ChatResume(c, fail)
                  /\ TokenOk(c) /\ chat[c].joinedRoom = Undef
                  /\ Trim(NextMsg(c).room) # <<>>) =>
                     LET R == Trim(NextMsg(c).room)
                         id == chat[c].token
                         joinMsg == ChatMsg(R, <<Username(id), " entrou na sala">>, id,
                                            Username(id), 1)
                         new(d) == SubSeq(chatOut'[d], Len(chatOut[d]) + 1, Len(chatOut'[d]))
                     IN /\ rooms'[R] = [present |-> TRUE,
                                        members |-> rooms[R].members \cup {c}]
                        /\ \A q \in RoomNames \ {R} : rooms'[q] = rooms[q]
                        /\ \A d \in rooms[R].members \ {c} :
                               CountIn(new(d), LAMBDA a : a.msg = joinMsg) = 1
                        /\ CountIn(new(c), LAMBDA a : a.msg.type = 3) = 1
                        /\ \A i \in NewChatAttempts(c) :
                               chatOut'[c][i].msg.type = 3 =>
                                   /\ chatOut'[c][i].msg.room = R
                                   /\ chatOut'[c][i].msg.sender_id = "system"
                        /\ chat'[c].joinedRoom = Some(R)
          /\ (chat[c].joinedRoom # Undef /\ chat'[c].signals = chat[c].signals) =>
                 chat'[c].joinedRoom = chat[c].joinedRoom]_vars

\* C21 witness: the second call joined the room the first call was in: the first
\* call was written the Join message of the second call's user, the second call
\* its welcome, and both are members.
C21_Witness ==
    \E r \in RoomNames :
        /\ rooms[r].members = ChatCalls
        /\ chat[2].joinedRoom = Some(r)
        /\ chat[1].user # chat[2].user
        /\ CountIn(chatOut[1], LAMBDA a : a.msg.type = 1 /\ Some(a.msg.sender_id) = chat[2].user) = 1
        /\ CountIn(chatOut[2], LAMBDA a : a.msg.type = 3 /\ a.msg.room = r) = 1

\* C22 (as claimed): after every step a call is a member of at most one room,
\* its log holds at most one Join message of its own user when no other call
\* has that user, and a Text message is written only on members of the room it
\* names.
C22_RoomSticky ==
    [][\A c \in ChatCalls :
          /\ Cardinality({r \in RoomNames : c \in rooms'[r].members}) <= 1
          /\ (\A d \in ChatCalls \ {c} : chat'[d].user # chat'[c].user) =>
                 CountIn(chatOut'[c],
                         LAMBDA a : a.msg.type = 1 /\ Some(a.msg.sender_id) = chat'[c].user) <= 1
          /\ \A i \in NewChatAttempts(c) :
                 chatOut'[c][i].msg.type = 0 =>
                     c \in rooms'[chatOut'[c][i].msg.room].members]_vars

\* C23 (as claimed): validateToken is called at most once per Chat call; a call
\* whose token does not verify is a member of no room and is written nothing.
C23_VerifiedOnce ==
    \A c \in ChatCalls :
        /\ chat[c].verifications <= 1
        /\ (chat[c].opened /\ ~TokenOk(c)) => (InRooms(c) = {} /\ chatOut[c] = <<>>)

\* C24 (as claimed): the handler of a message whose room is empty or only spaces
\* leaves the call as open as it was and changes no room.
C24_EmptyRoomKeepsStream ==
    [][\A c \in ChatCalls, fail \in SUBSET ChatCalls :
          /\ (ChatResume(c, fail) /\ TokenOk(c) /\ Trim(NextMsg(c).room) = <<>>) =>
                 (chat'[c].destroyed = chat[c].destroyed /\ rooms' = rooms)
          /\ \A room \in RoomInputs, text \in TextInputs :
                 (/\ Trim(room) = <<>> /\ chat[c].user # Undef
                  /\ ChatData(c, room, text, fail)) =>
                     (chat'[c].destroyed = chat[c].destroyed /\ rooms' = rooms)]_vars

\* C25 (as claimed): a signal on the only member of a room deletes the room; a
\* call that joins a room that is no key of rooms is its only member; and a call
\* that had joined, has handled a signal and left its room empty is written
\* nothing any more.
C25_RoomRecreatedFresh ==
    [][\A c \in ChatCalls :
          /\ \A r \in RoomNames :
                 (/\ chat'[c].signals # chat[c].signals
                  /\ chat[c].joinedRoom = Some(r) /\ rooms[r].members = {c}) =>
                     rooms'[r] = NoRoom
          /\ \A r \in RoomNames :
                 (/\ chat[c].joinedRoom = Undef /\ chat'[c].joinedRoom = Some(r)
                  /\ ~rooms[r].present) =>
                     rooms'[r] = [present |-> TRUE, members |-> {c}]
          /\ (/\ chat[c].signals # {}
              /\ CountIn(chatOut[c], LAMBDA a : a.msg.type = 3) > 0
              /\ \A r \in RoomNames : ~rooms[r].present) =>
                 chatOut'[c] = chatOut[c]]_vars

\* C26 (as claimed): while a stream-open handler has authenticated its caller and
\* has not yet registered its session, nothing else is processed: a step taken
\* then starts or advances no request, makes no notifyStreams call, delivers no
\* signal and changes no other call.
C26_OpenIsAtomic ==
    [][\A c \in Calls :
          call[c].pc \in {"all", "replay"} =>
              /\ req' = req
              /\ events' = events
              /\ \A d \in Calls : call'[d].signals = call[d].signals
              /\ \A d \in Calls \ {c} : call'[d] = call[d]]_vars

\* C27: a notifyStreams call made while a streamTasks call is between two rows
\* of its replay attempts its one write on the call of every registered session
\* the event matches, in that step, and leaves the replaying call as it is.
C27_ReplayDoesNotBlockDispatch ==
    [][(events' # events /\ \E c \in Calls : call[c].pc = "replay") =>
          LET e == events'[Len(events')]
          IN /\ \A i \in 1..Len(streamingSessions) :
                    Matches(streamingSessions[i], e) =>
                        /\ Len(NewAttempts(streamingSessions[i].call)) = 1
                        /\ NewAttempts(streamingSessions[i].call)[1].ev = Len(events')
             /\ call' = call]_vars

\* C27 witness: a dispatch was made while one call was in its replay, waiting
\* for its timer; the session of the other call was written the event.
C27_Witness ==
    /\ events # <<>>
    /\ \E c, d \in Calls :
           /\ c # d
           /\ call[c].pc = "replay"
           /\ call[d].pc = "live"
           /\ AttemptsOf(d) # <<>>
           /\ ~AttemptsOf(d)[1].threw

\* What a step must leave alone to have had no effect on the store, the
\* registry and the calls' logs.
NoEffect ==
    /\ store' = store /\ nextTaskId' = nextTaskId
    /\ streamingSessions' = streamingSessions
    /\ events' = events /\ out' = out

\* C28: every unary operation started with no token or with one that does not
\* verify is answered UNAUTHENTICATED in that same step, before any await of the
\* database, and every stream open with such a token destroys its call in that
\* step; the step changes neither the store nor streamingSessions, makes no
\* notifyStreams call and writes on no call.
C28_BadTokenRejected ==
    [][\A token \in RequestTokens \ Users :
          /\ \A r \in DOMAIN req :
                 (\/ \E title \in TitleInputs : CreateTaskStart(r, token, title)
                  \/ \E tid \in TaskIds, u \in UpdateInputs :
                         UpdateTaskStart(r, token, tid, u.title, u.completed)
                  \/ \E tid \in TaskIds : DeleteTaskStart(r, token, tid)
                  \/ GetTasksStart(r, token)
                  \/ \E tid \in TaskIds : GetTaskStart(r, token, tid)
                  \/ GetTaskStatsStart(r, token)) =>
                     /\ req'[r].pc = "done" /\ req'[r].resp = UNAUTHENTICATED
                     /\ NoEffect
          /\ \A c \in Calls :
                 (\/ \E completed \in OptBool : StreamTasksOpen(c, token, completed)
                  \/ \E threw \in BOOLEAN : StreamNotificationsOpen(c, token, threw)) =>
                     /\ call'[c].pc = "failed" /\ call'[c].destroyed
                     /\ NoEffect]_vars

\* C28 witness: with a session registered, a request was answered
\* UNAUTHENTICATED and a stream open was refused (its call is destroyed, has no
\* session and was written nothing); the store holds the initial row only and
\* nothing was dispatched.
C28_Witness ==
    /\ \E r \in DOMAIN req : req[r].pc = "done" /\ req[r].resp = UNAUTHENTICATED
    /\ \E c \in Calls :
           /\ call[c].kind # "none" /\ call[c].pc = "failed" /\ call[c].destroyed
           /\ ~HasSession(c) /\ out[c] = <<>>
    /\ streamingSessions # <<>>
    /\ store = {Row(1, "u1", FALSE, <<"a">>)}
    /\ events = <<>>

C30_EmptyTitleRejected ==
    [][\A r \in DOMAIN req, token \in Users, title \in TitleInputs :
          (/\ \A i \in 1..Len(title) : title[i] = Sp
           /\ CreateTaskStart(r, token, title)) =>
              /\ req'[r].pc = "done" /\ req'[r].resp = INVALID_ARGUMENT
              /\ store' = store /\ nextTaskId' = nextTaskId
              /\ events' = events /\ out' = out
              /\ streamingSessions' = streamingSessions]_vars

\* C30 witness: a createTask was answered INVALID_ARGUMENT while a session of a
\* user was registered; the store holds the initial row only and nothing was
\* dispatched.
C30_Witness ==
    /\ \E r \in DOMAIN req :
           req[r].op = "create" /\ req[r].pc = "done" /\ req[r].resp = INVALID_ARGUMENT
    /\ streamingSessions # <<>>
    /\ store = {Row(1, "u1", FALSE, <<"a">>)}
    /\ events = <<>>

\* The notification that opens a notification stream (grpc.js:349-355).
StreamStarted == Envelope(0, "Stream de notificações iniciado", {})

\* C31: a streamNotifications with a valid token writes the 'stream started'
\* notification on its call, as the first write on that call, and on no other
\* call; after every step, what follows it on a notification call are envelopes
\* of notifyStreams calls only.
C31_InitialNotificationFirst ==
    [][\A c \in Calls :
          /\ \A token \in Users, threw \in BOOLEAN :
                 StreamNotificationsOpen(c, token, threw) =>
                     /\ out[c] = <<>>
                     /\ out'[c] = <<Attempt(0, threw, StreamStarted)>>
                     /\ \A d \in Calls \ {c} : out'[d] = out[d]
          /\ (call'[c].kind = "notifications" /\ call'[c].user \in Users) =>
                 /\ out'[c] # <<>>
                 /\ out'[c][1].msg = StreamStarted
                 /\ \A i \in 2..Len(out'[c]) :
                        out'[c][i].ev > 0 /\ out'[c][i].msg # StreamStarted]_vars

\* C31 witness: a notification stream was written 'stream started' and then the
\* envelope of an event, while the other call, a stream of the same user, was
\* never written 'stream started'.
C31_Witness ==
    \E c, d \in Calls :
        /\ c # d
        /\ call[c].kind = "notifications"
        /\ Len(out[c]) = 2
        /\ out[c][1] = Attempt(0, FALSE, StreamStarted)
        /\ out[c][2].ev = 1
        /\ call[d].kind = "tasks" /\ call[d].user = call[c].user /\ call[d].pc = "live"
        /\ \A i \in 1..Len(out[d]) : out[d][i].msg # StreamStarted

\* C32 (as claimed): a notifyStreams call for a Created or Updated task, made
\* after a streamTasks call of the task's owner has read its rows and while that
\* call is open, with a filter the task passes, writes the task on that call.
C32_NoEventLostAroundReplay ==
    [][\A c \in Calls :
          (/\ events' # events
           /\ call[c].kind = "tasks" /\ call[c].pc \in {"replay", "live"}
           /\ call[c].signals = {} /\ ~call[c].destroyed
           /\ LET e == events'[Len(events')]
              IN /\ e.action \in {TASK_CREATED, TASK_UPDATED}
                 /\ e.task.userId = call[c].user
                 /\ call[c].filter \in {Undef, Some(e.task.completed)}) =>
              /\ NewAttempts(c) # <<>>
              /\ NewAttempts(c)[1].msg = TaskPayload(events'[Len(events')].task)]_vars

\* The dispatches of `action` for task `id`, in order.
EventsOf(action, id) ==
    SelectSeq(events, LAMBDA e : e.action = action /\ e.task.id = id)

\* C34: of the deleteTask requests that overlap on one task, the request whose
\* DELETE removes the row replies OK and calls notifyStreams('TASK_DELETED') in
\* that step, and every other reply of a deleteTask is a failure that dispatches
\* nothing; a task is dispatched as deleted at most once, and exactly once, with
\* exactly one OK, when all the requests were replied to and the row is gone.
C34_DeleteOnce ==
    [][/\ \A id \in TaskIds : Len(EventsOf(TASK_DELETED, id))' <= 1
       /\ \A r \in DOMAIN req :
              (req[r].op = "delete" /\ Handling(r) /\ req'[r].pc = "done") =>
                  IF req'[r].resp = OK
                  THEN /\ events' = Append(events, events'[Len(events')])
                       /\ events'[Len(events')].action = TASK_DELETED
                       /\ events'[Len(events')].task.id = req[r].tid
                       /\ \E t \in store : t.id = req[r].tid
                       /\ \A t \in store' : t.id # req[r].tid
                  ELSE /\ req'[r].resp \in {NOT_FOUND, INTERNAL}
                       /\ events' = events /\ out' = out /\ store' = store
       /\ (/\ \A r \in DOMAIN req : req'[r].op = "delete" /\ req'[r].pc = "done"
           /\ store' = {}) =>
              /\ Cardinality({r \in DOMAIN req : req'[r].resp = OK}) = 1
              /\ Len(events') = 1 /\ events'[1].action = TASK_DELETED]_vars

\* C34 witness: two deleteTask requests overlapped on task 1; one replied OK,
\* the other INTERNAL, and TASK_DELETED was dispatched once.
C34_Witness ==
    /\ DOMAIN req = {1, 2}
    /\ \A r \in DOMAIN req : req[r].op = "delete" /\ req[r].pc = "done"
    /\ {req[r].resp : r \in DOMAIN req} = {OK, INTERNAL}
    /\ store = {}
    /\ Len(EventsOf(TASK_DELETED, 1)) = 1

\* C35: in the order of the notifyStreams calls, no TASK_UPDATED event of a task
\* follows the TASK_DELETED event of that task.
C35_NoUpdateAfterDelete ==
    \A i, j \in 1..Len(events) :
        (i < j /\ events[i].action = TASK_DELETED /\ events[i].task.id = events[j].task.id)
            => events[j].action # TASK_UPDATED

\* C35 witness: an updateTask and a deleteTask overlapped on task 1; the delete
\* replied OK and was dispatched, the update replied INTERNAL and nothing was
\* dispatched for it.
C35_Witness ==
    /\ DOMAIN req = {1, 2}
    /\ \E r, q \in DOMAIN req :
           /\ req[r].op = "update" /\ req[r].pc = "done" /\ req[r].resp = INTERNAL
           /\ req[q].op = "delete" /\ req[q].pc = "done" /\ req[q].resp = OK
    /\ Len(events) = 1 /\ events[1].action = TASK_DELETED

\* C33 (as claimed): when an updateTask that names only the title and an
\* updateTask that names only the completed flag of the same task have both
\* completed their UPDATE (each then reads the row again and replies OK), the
\* stored task has the title of the one and the flag of the other.
C33_UpdatesSerializable ==
    \A r, q \in DOMAIN req :
        (/\ req[r].op = "update" /\ req[r].pc = "reget"
         /\ req[q].op = "update" /\ req[q].pc = "reget"
         /\ req[r].tid = req[q].tid /\ req[r].user = req[q].user
         /\ req[r].title # Undef /\ req[r].completed = Undef
         /\ req[q].title = Undef /\ req[q].completed # Undef) =>
            \E t \in dbGet(req[r].tid, req[r].user) :
                /\ t.title \in req[r].title
                /\ t.completed \in req[q].completed

\* C36: getTask, updateTask and deleteTask of a caller on a task of another user
\* answer NOT_FOUND at their SELECT; no step of a request removes or changes a
\* row of another user; a getTasks reply holds exactly the caller's rows; and
\* the replay of streamTasks writes only rows of the user of the call.
C36_OwnerIsolation ==
    [][/\ \A r \in DOMAIN req :
              LET foreign == \E t \in store : t.id = req[r].tid /\ t.userId # req[r].user
              IN /\ (foreign /\ MutationGet(r)) =>
                        req'[r].pc = "done" /\ req'[r].resp = NOT_FOUND
                 /\ (foreign /\ GetTaskRun(r, TRUE)) =>
                        req'[r].pc = "done" /\ req'[r].resp = NOT_FOUND
                 /\ (Handling(r) /\ req'[r] # req[r]) =>
                        \A t \in store : t.userId # req[r].user => t \in store'
                 /\ (foreign /\ Handling(r) /\ req'[r] # req[r]) =>
                        store' = store /\ events' = events /\ out' = out
                 /\ GetTasksRun(r, TRUE) =>
                        /\ req'[r].resp = OK
                        /\ {req'[r].tasks[i] : i \in 1..Len(req'[r].tasks)} =
                               {t \in store : t.userId = req[r].user}
       /\ \A c \in Calls : \A i \in 1..Len(NewAttempts(c)) :
              LET a == NewAttempts(c)[i]
              IN (a.ev = 0 /\ a.msg.kind = "task") =>
                     \A t \in a.msg.task : t.userId = call'[c].user]_vars

\* C36 witness: the store holds a task of each user, and the streamTasks call of
\* u1 replayed task 1 and nothing else.
C36_Witness ==
    /\ \E t \in store : t.userId = "u1"
    /\ \E t \in store : t.userId = "u2"
    /\ \E c \in Calls :
           /\ call[c].kind = "tasks" /\ call[c].user = "u1" /\ call[c].pc = "live"
           /\ call[c].filter = Undef
           /\ Len(out[c]) = 1 /\ out[c][1].ev = 0
           /\ \A t \in out[c][1].msg.task : t.userId = "u1"

\* The messages a step writes, or tries to write, on call d.
NewChatMsgs(d) == {chatOut'[d][i].msg : i \in NewChatAttempts(d)}

\* C37: a Join, Leave or Text message of room R is written only on calls that
\* the rooms map holds as members of R when the handler that broadcasts it has
\* run; a step writes nothing on any other call.
C37_BroadcastOnlyToMembers ==
    [][\A d \in ChatCalls :
          /\ \A m \in NewChatMsgs(d) :
                 m.type \in {0, 1, 2} =>
                     /\ rooms'[m.room].present
                     /\ d \in rooms'[m.room].members
                     /\ m.type \in {0, 1} => chat'[d].joinedRoom = Some(m.room)
          /\ InRooms(d)' = {} => NewChatMsgs(d) = {}]_vars

\* C37 witness: the two calls are in different rooms, a Text message was written
\* in each room, and neither call has a message of the other's room.
C37_Witness ==
    /\ rooms[<<"o">>].members = {1} /\ rooms[<<"g">>].members = {2}
    /\ \E i \in 1..Len(chatOut[1]) :
           chatOut[1][i].msg.type = 0 /\ chatOut[1][i].msg.room = <<"o">>
    /\ \E i \in 1..Len(chatOut[2]) :
           chatOut[2][i].msg.type = 0 /\ chatOut[2][i].msg.room = <<"g">>
    /\ \A i \in 1..Len(chatOut[1]) : chatOut[1][i].msg.room = <<"o">>
    /\ \A i \in 1..Len(chatOut[2]) : chatOut[2][i].msg.room = <<"g">>

\* Every Text message a step writes is one of call c: the token of c verifies,
\* c is a member of the message's room, and the sender is the user of the token.
TextOnBehalfOf(c) ==
    \A d \in ChatCalls : \A m \in NewChatMsgs(d) :
        m.type = 0 =>
            /\ TokenOk(c)
            /\ chat'[c].user = Some(validateToken(chat[c].token).id)
            /\ rooms'[m.room].present /\ c \in rooms'[m.room].members
            /\ m.sender_id = validateToken(chat[c].token).id
            /\ m.sender_name = Username(validateToken(chat[c].token).id)

\* C38: the Text messages written by the handler of a message of call c, run at
\* once or resumed after the token check, are messages of c in the sense of
\* TextOnBehalfOf; a transport signal writes no Text message.
C38_TextOnlyFromVerifiedMember ==
    [][/\ \A c \in ChatCalls :
              /\ Len(chat'[c].pending) < Len(chat[c].pending) => TextOnBehalfOf(c)
              /\ chat'[c].signals # chat[c].signals =>
                     \A d \in ChatCalls : \A m \in NewChatMsgs(d) : m.type # 0
       /\ nData' # nData =>
              \A c \in ChatCalls, room \in RoomInputs, text \in TextInputs,
                 fail \in SUBSET ChatCalls :
                  ChatData(c, room, text, fail) => TextOnBehalfOf(c)]_vars

\* C38 witness: call 2, with the token of u2, sent a Text message to the room
\* that call 1, with the token of u1, had joined before; call 1 was written it
\* with u2 as the sender.
C38_Witness ==
    /\ chat[1].token = "u1" /\ chat[2].token = "u2"
    /\ \E r \in RoomNames :
           /\ rooms[r].members = {1, 2}
           /\ \E i \in 1..Len(chatOut[1]) :
                  /\ chatOut[1][i].msg.type = 0 /\ chatOut[1][i].msg.room = r
                  /\ chatOut[1][i].msg.sender_id = "u2"
                  /\ chatOut[1][i].msg.sender_name = Username("u2")

\* The token of a call as the claim describes it: the authorization value with
\* a leading 'Bearer ' taken off, if there is one that leaves a token, else the
\* token of the request, if there is one.
ClaimedToken(e) ==
    LET header == IF e.metadata \in {Undef, Some(<<>>)} THEN <<>>
                  ELSE (CHOOSE v \in e.metadata : TRUE)[1]
        rests == {<<>>, <<"u1">>, <<"u2">>, <<BadToken>>}
        fromHeader == IF \E t \in rests : header = BearerPrefix \o t
                      THEN CHOOSE t \in rests : header = BearerPrefix \o t
                      ELSE header
    IN IF fromHeader # <<>> THEN fromHeader
       ELSE IF e.request = Undef THEN <<>>
       ELSE (CHOOSE q \in e.request : TRUE).token

\* C39 (as claimed): for every call the interceptor either called next once and
\* sent no status, or sent an UNAUTHENTICATED status and did not call next; it
\* called next exactly when the path is public or the call's token verifies, and
\* on a protected path call.user is then the payload of the token.
C39_NextXorUnauthenticated ==
    \A i \in 1..Len(auth) :
        LET e == auth[i]
            token == ClaimedToken(e)
            verifies == token \in {<<"u1">>, <<"u2">>}
        IN /\ \/ e.did.next = 1 /\ e.did.status = Undef
              \/ /\ e.did.next = 0 /\ e.did.status # Undef
                 /\ \A st \in e.did.status : st.code = UNAUTHENTICATED
           /\ e.did.next = 1 <=> (e.path \in PublicMethods \/ verifies)
           /\ (e.path \notin PublicMethods /\ verifies) =>
                  \E u \in e.did.user : u.id = token[1]
           /\ e.did.next = 0 => e.did.user = Undef

====
